---- MODULE Spec2Model ----
(***************************************************************************)
(* The gallery manifest (gallery-config.json), the images/ and videos/     *)
(* directories, and the runs of the scripts that read and write them:      *)
(* scripts/batch_heic_importer.py and scripts/quick_import.py.             *)
(*                                                                         *)
(* Names are sequences of one-character strings, <<"A","b">> for "Ab".     *)
(* Times are ticks of a wall clock; durations are milliseconds, and an     *)
(* item's duration is in tenths of a second (round(duration, 1)).          *)
(***************************************************************************)
EXTENDS Integers, Sequences, FiniteSets, TLC

\* Bounds of the model.
MaxRuns == 2
MaxTime == 1

Procs == {1, 2}

Max(S) == CHOOSE x \in S : \A y \in S : y <= x

--------------------------------------------------------------------------
\* Names: scripts/batch_heic_importer.py, sanitize_filename and the title.

Lower(c) ==
    CASE c = "A" -> "a"
      [] c = "B" -> "b"
      [] c = "I" -> "i"
      [] OTHER -> c

Upper(c) ==
    CASE c = "a" -> "A"
      [] c = "b" -> "B"
      [] c = "i" -> "I"
      [] OTHER -> c

IsCased(c) == c \in {"a", "b", "i", "A", "B", "I"}

\* [a-z0-9_]
SlugChars == {"a", "b", "i", "0", "1", "_"}

LowerStr(s) == [i \in 1..Len(s) |-> Lower(s[i])]

\* Path(filename): the components of the path; pathlib drops the empty
\* components and the components ".".
RECURSIVE SplitPath(_)
SplitPath(s) ==
    LET slashes == {i \in 1..Len(s) : s[i] = "/"}
    IN  IF slashes = {} THEN <<s>>
        ELSE LET i == CHOOSE k \in slashes : \A j \in slashes : k <= j
             IN  <<SubSeq(s, 1, i - 1)>> \o SplitPath(SubSeq(s, i + 1, Len(s)))

IsPathPart(part) == Len(part) > 0 /\ ~(Len(part) = 1 /\ part[1] = ".")

\* Path(filename).name: the last component, "" when there is none.
PathName(s) ==
    LET parts == SelectSeq(SplitPath(s), IsPathPart)
    IN  IF parts = <<>> THEN <<>> ELSE parts[Len(parts)]

\* Path(filename).stem: the name without its last suffix; a dot that leads
\* or ends the name starts no suffix.
Stem(s) ==
    LET dots == {i \in 1..Len(s) : s[i] = "."}
        d == IF dots = {} THEN 0 ELSE Max(dots)
    IN  IF d > 1 /\ d < Len(s) THEN SubSeq(s, 1, d - 1) ELSE s

\* re.sub(r'[^a-z0-9_]', '_', name)
ReplaceSpecial(s) == [i \in 1..Len(s) |-> IF s[i] \in SlugChars THEN s[i] ELSE "_"]

\* re.sub(r'_+', '_', name)
RECURSIVE CollapseUnderscores(_)
CollapseUnderscores(s) ==
    IF Len(s) < 2 THEN s
    ELSE IF s[1] = "_" /\ s[2] = "_" THEN CollapseUnderscores(Tail(s))
    ELSE <<s[1]>> \o CollapseUnderscores(Tail(s))

\* name.strip('_')
RECURSIVE StripLeft(_)
StripLeft(s) ==
    IF s # <<>> /\ s[1] = "_" THEN StripLeft(Tail(s)) ELSE s

RECURSIVE StripRight(_)
StripRight(s) ==
    IF s # <<>> /\ s[Len(s)] = "_" THEN StripRight(SubSeq(s, 1, Len(s) - 1)) ELSE s

\* name.lstrip('_') in place of name.strip('_').
StripUnderscores_LeftOnly(s) == StripLeft(s)

StripUnderscores(s) == StripRight(StripLeft(s))

sanitize_filename(filename) ==
    StripUnderscores(CollapseUnderscores(ReplaceSpecial(LowerStr(Stem(PathName(filename))))))

\* folder_name.replace('_', ' ').title()
TitleOf(folder_name) ==
    LET spaced == [i \in 1..Len(folder_name) |->
                     IF folder_name[i] = "_" THEN " " ELSE folder_name[i]]
    IN  [i \in 1..Len(spaced) |->
           IF ~IsCased(spaced[i]) THEN spaced[i]
           ELSE IF i > 1 /\ IsCased(spaced[i - 1]) THEN Lower(spaced[i])
           ELSE Upper(spaced[i])]

\* category_name.title() for the tags the runs use.
CategoryTitle(tag) ==
    CASE tag = "nature" -> "Nature"
      [] tag = "abstract" -> "Abstract"
      [] tag = "premium" -> "Premium"
      [] tag = "custom" -> "Custom"
      [] OTHER -> tag

--------------------------------------------------------------------------
\* Files.  A file name is a stem and an extension; a directory maps each
\* name to <<>> (no such file) or <<content>>.

FileName(stem, ext) == [stem |-> stem, ext |-> ext]

\* The intake folders a run can be given.  heic and mov hold the first file the
\* globs of process_intake_folders find, if any.
Intake ==
    <<  [name |-> <<"A", "b">>, dir |-> TRUE,
         heic |-> <<[file |-> FileName(<<"a", "b">>, "HEIC"), bytes |-> 1536]>>,
         mov  |-> <<[ms |-> 2540, bytes |-> 4096]>>],
        [name |-> <<"a", " ", "b">>, dir |-> TRUE,
         heic |-> <<[file |-> FileName(<<"i">>, "HEIC"), bytes |-> 2048]>>,
         mov  |-> <<[ms |-> 3000, bytes |-> 5000]>>],
        [name |-> <<"A", "_", "B">>, dir |-> TRUE,
         heic |-> <<[file |-> FileName(<<"i">>, "HEIC"), bytes |-> 900]>>,
         mov  |-> <<[ms |-> 1960, bytes |-> 3000]>>],
        [name |-> <<"b">>, dir |-> FALSE,
         heic |-> <<>>, mov |-> <<>>],
        [name |-> <<"b", "0">>, dir |-> TRUE,
         heic |-> <<>>,
         mov  |-> <<[ms |-> 1000, bytes |-> 100]>>],
        [name |-> <<"b", "1">>, dir |-> TRUE,
         heic |-> <<[file |-> FileName(<<"b">>, "heic"), bytes |-> 10]>>,
         mov  |-> <<>>]  >>

Folders == 1..Len(Intake)

ImageFiles == {Intake[f].heic[1].file : f \in {g \in Folders : Intake[g].heic # <<>>}}

ItemIds == {sanitize_filename(Intake[f].name) : f \in Folders}

VideoFiles == {FileName(id, "mov") : id \in ItemIds}

--------------------------------------------------------------------------
\* The manifest document and its items.

URL(dir, file) == <<[dir |-> dir, file |-> file]>>

NoURL == <<>>

\* The file at the manifest path: absent, not valid JSON, or a JSON object.
\* keys names the top-level fields the object has.
NoDoc == [keys |-> {}, version |-> "", lastUpdated |-> 0, baseURL |-> "", categories |-> <<>>]

Absent == [kind |-> "absent", why |-> "", doc |-> NoDoc]

Invalid(why) == [kind |-> "invalid", why |-> why, doc |-> NoDoc]

Json(doc) == [kind |-> "json", why |-> "", doc |-> doc]

AllKeys == {"version", "lastUpdated", "baseURL", "categories"}

\* The default config with a version other than "1.0.0".
FreshConfig_OtherVersion(t) ==
    [keys |-> {"version", "lastUpdated", "baseURL", "categories"}, version |-> "1.0",
     lastUpdated |-> t,
     baseURL |-> "https://raw.githubusercontent.com/CodingMogul/livephotos-gallery/master",
     categories |-> <<>>]

\* load_gallery_config, the FileNotFoundError branch.
FreshConfig(t) ==
    [keys |-> AllKeys, version |-> "1.0.0", lastUpdated |-> t,
     baseURL |-> "https://raw.githubusercontent.com/CodingMogul/livephotos-gallery/master",
     categories |-> <<>>]

\* load_gallery_config with a bare except in place of except
\* FileNotFoundError: a file that does not parse gives the default config.
load_gallery_config_CatchAll(file, t) ==
    CASE file.kind \in {"absent", "invalid"} -> [raised |-> FALSE, config |-> FreshConfig(t)]
      [] OTHER -> [raised |-> FALSE, config |-> file.doc]

\* What load_gallery_config does with the file: a config, or an exception
\* (json.load's JSONDecodeError; only FileNotFoundError is caught).
load_gallery_config(file, t) ==
    CASE file.kind = "absent"  -> [raised |-> FALSE, config |-> FreshConfig(t)]
      [] file.kind = "invalid" -> [raised |-> TRUE, config |-> NoDoc]
      [] OTHER                 -> [raised |-> FALSE, config |-> file.doc]

CategoryIds(config) == [i \in 1..Len(config.categories) |-> config.categories[i].id]

\* The first index of seq that holds x, or 0.
FirstIndex(seq, x) ==
    LET hits == {i \in 1..Len(seq) : seq[i] = x}
    IN  IF hits = {} THEN 0 ELSE CHOOSE i \in hits : \A j \in hits : i <= j

NewCategory(category_name) ==
    [id |-> category_name,
     name |-> CategoryTitle(category_name),
     description |-> [text |-> "Beautiful scenes", of |-> category_name],
     items |-> <<>>]

\* find_or_create_category without the search: a category is always appended.
find_or_create_category_AlwaysCreate(config, category_name) ==
    IF "categories" \notin config.keys
    THEN [raised |-> TRUE, config |-> config, ix |-> 0]
    ELSE [raised |-> FALSE,
          config |-> [config EXCEPT !.categories = Append(@, NewCategory(category_name))],
          ix |-> Len(config.categories) + 1]

\* find_or_create_category: the config after the call and the index, in
\* config["categories"], of the category it returns (the object the manifest
\* holds).  config["categories"] raises KeyError when the key is missing.
find_or_create_category(config, category_name) ==
    IF "categories" \notin config.keys
    THEN [raised |-> TRUE, config |-> config, ix |-> 0]
    ELSE LET found == FirstIndex(CategoryIds(config), category_name)
         IN  IF found # 0
             THEN [raised |-> FALSE, config |-> config, ix |-> found]
             ELSE [raised |-> FALSE,
                   config |-> [config EXCEPT
                                 !.categories = Append(@, NewCategory(category_name))],
                   ix |-> Len(config.categories) + 1]

ItemIdsOf(items) == [i \in 1..Len(items) |-> items[i].id]

\* The upsert without the search by id: the item is always appended.
UpsertItem_AlwaysAppend(items, item) == Append(items, item)

\* The upsert that leaves an item that has the id as it is.
UpsertItem_KeepExisting(items, item) ==
    IF FirstIndex(ItemIdsOf(items), item.id) # 0 THEN items ELSE Append(items, item)

\* process_intake_folders, lines 274-288: replace the first item that has the
\* new item's id, or append.
UpsertItem(items, item) ==
    LET existing_item == FirstIndex(ItemIdsOf(items), item.id)
    IN  IF existing_item # 0
        THEN [items EXCEPT ![existing_item] = item]
        ELSE Append(items, item)

\* round(duration, 1), in tenths of a second.
RoundTenths(ms) == (ms + 50) \div 100

\* create_gallery_item without the test of video_file: the item always names
\* the video and takes the probed duration.
create_gallery_item_VideoAlways(heic_file, image, video_file, video, probe_ms, tags, folder_name, t) ==
    [id |-> sanitize_filename(folder_name),
     title |-> TitleOf(folder_name),
     description |-> [title |-> <<>>, text |-> "Live Photo from paired HEIC and MOV files"],
     imageURL |-> URL("images", heic_file),
     videoURL |-> URL("videos", video_file),
     thumbnailURL |-> URL("images", heic_file),
     isPremium |-> \E i \in 1..Len(tags) : tags[i] = "premium",
     tags |-> tags,
     duration |-> RoundTenths(probe_ms),
     size |-> [bytes |-> IF image # <<>> THEN image[1].bytes ELSE 0],
     createdAt |-> t]

\* create_gallery_item.  image is the file in images/ (<<>> when stat
\* fails), video is the copied file (<<>> when copy_video_file returned None)
\* and probe_ms is what get_video_duration returned for it.
create_gallery_item(heic_file, image, video_file, video, probe_ms, tags, folder_name, t) ==
    [id |-> sanitize_filename(folder_name),
     title |-> TitleOf(folder_name),
     description |-> [title |-> <<>>, text |-> "Live Photo from paired HEIC and MOV files"],
     imageURL |-> URL("images", heic_file),
     videoURL |-> IF video # <<>> THEN URL("videos", video_file) ELSE NoURL,
     thumbnailURL |-> URL("images", heic_file),
     isPremium |-> \E i \in 1..Len(tags) : tags[i] = "premium",
     tags |-> tags,
     duration |-> IF video # <<>> THEN RoundTenths(probe_ms) ELSE RoundTenths(1000),
     size |-> [bytes |-> IF image # <<>> THEN image[1].bytes ELSE 0],
     createdAt |-> t]

\* quick_import, lines 111-127.
QuickEntry(name, title, category, is_premium, image_ext, image, video_ext, video, probe_ms, t) ==
    [id |-> [i \in 1..Len(name) |-> IF Lower(name[i]) = " " THEN "_" ELSE Lower(name[i])],
     title |-> title,
     description |-> [title |-> title, text |-> " Live Photo"],
     imageURL |-> URL("images", FileName(name, image_ext)),
     videoURL |-> URL("videos", FileName(name, video_ext)),
     thumbnailURL |-> URL("images", FileName(name, image_ext)),
     isPremium |-> is_premium,
     tags |-> <<category, "custom">>,
     duration |-> RoundTenths(probe_ms),
     size |-> [bytes |-> image[1].bytes + video[1].bytes],
     createdAt |-> t]

\* update_gallery_config, lines 149-158: append to the first category with
\* the id, unless an item there has the entry's id.
QuickUpdate(config, entry, category) ==
    LET c == FirstIndex(CategoryIds(config), category)
    IN  IF c = 0 \/ entry.id \in {config.categories[c].items[i].id :
                                    i \in 1..Len(config.categories[c].items)}
        THEN config
        ELSE [config EXCEPT !.categories[c].items = Append(@, entry)]

--------------------------------------------------------------------------
\* What the runs are given.

Batches == {<<4, 6, 1>>, <<2, 3>>, <<5>>, <<4>>}

\* The --<tag> flags of a batch run, in order.
TagLists == {<<>>, <<"nature", "premium">>}

QuickNames == {<<"a", "b">>}

BatchArgs ==
    {[script |-> "batch", folders |-> b, tags |-> t, name |-> <<>>, title |-> <<>>,
      category |-> "", premium |-> FALSE, auto |-> FALSE] : b \in Batches, t \in TagLists}

\* quick_import.py: --category has choices nature and abstract, default nature.
QuickArgs ==
    {[script |-> "quick", folders |-> <<>>, tags |-> <<>>, name |-> n, title |-> <<"T">>,
      category |-> c, premium |-> p, auto |-> a] :
        n \in QuickNames, c \in {"nature"}, p \in BOOLEAN, a \in BOOLEAN}

\* No helper function has been called on its own.
NoCall == [fn |-> "", arg |-> <<>>, res |-> <<>>]

NoArgs ==
    [script |-> "", folders |-> <<>>, tags |-> <<>>, name |-> <<>>, title |-> <<>>,
     category |-> "", premium |-> FALSE, auto |-> FALSE]

\* python3 update_to_heic.py has no arguments.
HeicArgs == {[NoArgs EXCEPT !.script = "to_heic"]}

\* An item that was in the manifest before any run of the model.
LegacyItem ==
    [id |-> <<"a", "_", "b">>,
     title |-> <<"O", "l", "d">>,
     description |-> [title |-> <<>>, text |-> "Live Photo from paired HEIC and MOV files"],
     imageURL |-> URL("images", FileName(<<"o">>, "HEIC")),
     videoURL |-> URL("videos", FileName(<<"a", "_", "b">>, "mov")),
     thumbnailURL |-> URL("images", FileName(<<"o">>, "HEIC")),
     isPremium |-> FALSE,
     tags |-> <<"nature">>,
     duration |-> 12,
     size |-> [bytes |-> 77],
     createdAt |-> 0]

LegacyDoc ==
    [FreshConfig(0) EXCEPT
       !.categories = <<[NewCategory("nature") EXCEPT !.items = <<LegacyItem>>]>>]

\* The length of the serialized document, up to what the model tells apart:
\* every category and every item makes it longer.
RECURSIVE CountItems(_)
CountItems(categories) ==
    IF categories = <<>> THEN 0
    ELSE Len(categories[1].items) + CountItems(Tail(categories))

DocLen(doc) == 1 + Len(doc.categories) + CountItems(doc.categories)

\* The manifest file with its length.
File(content, len) == [kind |-> content.kind, why |-> content.why, doc |-> content.doc, len |-> len]

JsonFile(doc) == File(Json(doc), DocLen(doc))

InitManifests ==
    { File(Absent, 0),
      File(Invalid("garbage"), 1),
      JsonFile([FreshConfig(0) EXCEPT !.keys = AllKeys \ {"categories"}]),
      JsonFile(LegacyDoc) }

--------------------------------------------------------------------------
VARIABLES
    manifest,         \* the file gallery-config.json
    images,           \* images/: file name -> <<>> or <<[src, bytes]>>
    videos,           \* videos/: file name -> <<>> or <<[src, ms, bytes]>>
    installed,        \* the external tools on the PATH
    faults,           \* whether file operations can fail (I/O errors)
    now,              \* the wall clock
    nruns,            \* runs started so far
    lastSaver,        \* the run that last completed a write of the manifest
    pc,               \* where each run is
    argv,             \* its command line
    config,           \* its in-memory manifest
    category,         \* index in config.categories of its target category
    loopIx,           \* index in existing_folders of the folder it is at
    processed_items,  \* ids of the items it processed
    exitCode,         \* its exit code, -1 while it has none
    out,              \* the last outcome it printed
    atLoad,           \* the manifest file as it read it
    stale,            \* another run opened the manifest for writing after it read it
    rerun,            \* it repeats the command line of the run before it, which
                      \* was terminated ("after_kill") or ended with exit code 0
                      \* ("after_complete")
    initial,          \* the manifest file before the first run
    call              \* a helper function called on its own: [fn, arg, res]

vars ==
    <<manifest, images, videos, installed, faults, now, nruns, lastSaver, pc, argv,
      config, category, loopIx, processed_items, exitCode, out, atLoad, stale,
      rerun, initial, call>>

\* The outcomes of a file operation: it succeeds, or it fails where I/O
\* errors happen.
Outcomes == IF faults THEN BOOLEAN ELSE {TRUE}

InitRuns ==
    /\ images = [f \in ImageFiles |-> <<>>]
    /\ videos = [f \in VideoFiles |-> <<>>]
    /\ now = 0
    /\ nruns = 0
    /\ lastSaver = 0
    /\ pc = [r \in Procs |-> "idle"]
    /\ argv = [r \in Procs |-> NoArgs]
    /\ config = [r \in Procs |-> NoDoc]
    /\ category = [r \in Procs |-> 0]
    /\ loopIx = [r \in Procs |-> 0]
    /\ processed_items = [r \in Procs |-> <<>>]
    /\ exitCode = [r \in Procs |-> -1]
    /\ out = [r \in Procs |-> ""]
    /\ atLoad = [r \in Procs |-> File(Absent, 0)]
    /\ stale = [r \in Procs |-> FALSE]
    /\ rerun = [r \in Procs |-> ""]
    /\ initial = manifest
    /\ call = NoCall

Init ==
    /\ manifest \in InitManifests
    /\ installed \in {{"ffmpeg", "ffprobe"}, {"ffprobe"}}
    /\ faults = TRUE
    /\ InitRuns

\* The runs where no file operation fails.
InitQuiet ==
    /\ manifest \in InitManifests
    /\ installed \in {{"ffmpeg", "ffprobe"}, {"ffmpeg"}}
    /\ faults = FALSE
    /\ InitRuns

\* Overlapping runs are followed where the tools are installed, the manifest
\* is absent or well formed, and no file operation fails.
InitRace ==
    /\ manifest \in {File(Absent, 0), JsonFile(LegacyDoc)}
    /\ installed = {"ffmpeg", "ffprobe"}
    /\ faults = FALSE
    /\ InitRuns

Lookup(dir, file) == IF file \in DOMAIN dir THEN dir[file] ELSE <<>>

Running(r) == pc[r] \notin {"idle", "exited", "killed"}

\* main, lines 320-330: the tags of the run.
Tags(args) == IF args.tags = <<>> THEN <<"custom">> ELSE args.tags

\* The category from the last tag in place of the first.
category_name_LastTag(tags) == IF tags # <<>> THEN tags[Len(tags)] ELSE "custom"

\* process_intake_folders, line 224: the first tag names the category.
category_name(tags) == IF tags # <<>> THEN tags[1] ELSE "custom"

\* check_dependencies.
check_dependencies(tools) == "ffmpeg" \in tools

\* main, line 355, and the test at lines 232-234.
IsDir(f) == Intake[f].dir

existing_folders(args) == SelectSeq(args.folders, IsDir)

\* sys.exit(code), or the end of main.
Exit(r, code, msg) ==
    /\ pc' = [pc EXCEPT ![r] = "exited"]
    /\ exitCode' = [exitCode EXCEPT ![r] = code]
    /\ out' = [out EXCEPT ![r] = msg]

--------------------------------------------------------------------------
\* A run starts with the command line args.
StartRun(r, args) ==
    /\ ~Running(r)
    /\ nruns < MaxRuns
    /\ argv' = [argv EXCEPT ![r] = args]
    /\ pc' = [pc EXCEPT ![r] = CASE args.script = "batch" -> "main"
                                  [] args.script = "quick" -> "quick"
                                  [] OTHER -> "heic"]
    /\ nruns' = nruns + 1
    /\ config' = [config EXCEPT ![r] = NoDoc]
    /\ category' = [category EXCEPT ![r] = 0]
    /\ loopIx' = [loopIx EXCEPT ![r] = 0]
    /\ processed_items' = [processed_items EXCEPT ![r] = <<>>]
    /\ exitCode' = [exitCode EXCEPT ![r] = -1]
    /\ out' = [out EXCEPT ![r] = ""]
    /\ atLoad' = [atLoad EXCEPT ![r] = File(Absent, 0)]
    /\ stale' = [stale EXCEPT ![r] = FALSE]
    /\ LET again == IF args # argv[r] THEN ""
                     ELSE IF pc[r] = "killed" THEN "after_kill"
                     ELSE IF pc[r] = "exited" /\ exitCode[r] = 0 THEN "after_complete"
                     ELSE ""
       IN  rerun' = [rerun EXCEPT ![r] = again]
    /\ UNCHANGED <<initial, call>>
    /\ UNCHANGED <<manifest, images, videos, installed, faults, now, lastSaver>>

\* python3 batch_heic_importer.py <folders> --<tag> ...
StartBatch(r) == \E args \in BatchArgs : StartRun(r, args)

\* python3 quick_import.py <name> <title> [--category c] [--premium] [--auto]
StartQuick(r) == \E args \in QuickArgs : StartRun(r, args)

\* python3 update_to_heic.py
StartHeic(r) == \E args \in HeicArgs : StartRun(r, args)

\* main, lines 338-361: the dependency check and the filter of the folders.
Main(r) ==
    /\ UNCHANGED <<rerun, initial, call>>
    /\ pc[r] = "main"
    /\ IF ~check_dependencies(installed)
       THEN Exit(r, 1, "missing_tools")
       ELSE IF existing_folders(argv[r]) = <<>>
       THEN Exit(r, 1, "no_folders")
       ELSE /\ pc' = [pc EXCEPT ![r] = "load"]
            /\ UNCHANGED <<exitCode, out>>
    /\ UNCHANGED <<manifest, images, videos, installed, faults, now, nruns, lastSaver, argv,
                   config, category, loopIx, processed_items, atLoad, stale>>

\* process_intake_folders, lines 211-227: read the manifest and find the
\* category.  An exception reaches main's handler, lines 387-389.
ProcessLoad(r) ==
    /\ UNCHANGED <<rerun, initial, call>>
    /\ pc[r] = "load"
    /\ LET loaded == load_gallery_config(manifest, now)
           found  == find_or_create_category(loaded.config, category_name(Tags(argv[r])))
       IN  IF loaded.raised \/ found.raised
           THEN /\ Exit(r, 1, "error")
                /\ UNCHANGED <<config, category, loopIx>>
           ELSE /\ config' = [config EXCEPT ![r] = found.config]
                /\ category' = [category EXCEPT ![r] = found.ix]
                /\ loopIx' = [loopIx EXCEPT ![r] = 1]
                /\ pc' = [pc EXCEPT ![r] = "loop"]
                /\ UNCHANGED <<exitCode, out>>
    /\ atLoad' = [atLoad EXCEPT ![r] = manifest]
    /\ UNCHANGED <<manifest, images, videos, installed, faults, now, nruns, lastSaver, argv,
                   processed_items, stale>>

\* get_video_duration (batch_heic_importer.py): ffprobe's answer, or 1.0 on
\* any failure (here: no ffprobe to run).
get_video_duration(video, tools) ==
    IF "ffprobe" \in tools THEN video[1].ms ELSE 1000

\* get_video_duration (quick_import.py): the fallback is 5.0.
quick_get_video_duration(video, tools) ==
    IF "ffprobe" \in tools THEN video[1].ms ELSE 5000

\* Lines 260-266 with every copy written over the file that is there.
CopyHeic_Overwrite(dir, dest_heic, f) ==
    [dir EXCEPT ![dest_heic] = <<[src |-> f, bytes |-> Intake[f].heic[1].bytes]>>]

\* process_intake_folders, lines 260-266: the image of folder f is copied to
\* images/ unless a file of its name is there.
CopyHeic(dir, dest_heic, f) ==
    IF Lookup(dir, dest_heic) = <<>>
    THEN [dir EXCEPT ![dest_heic] = <<[src |-> f, bytes |-> Intake[f].heic[1].bytes]>>]
    ELSE dir

\* Lines 274-290 on the run's category.
UpsertInto(cfg, ix, item) ==
    [cfg EXCEPT !.categories[ix].items = UpsertItem(@, item)]

\* process_intake_folders, lines 229-290: one turn of the loop.  heic_ok and
\* mov_ok are whether shutil.copy2 of the image and the copy of the video
\* succeed when they are called.
ProcessFolder(r) ==
    /\ UNCHANGED <<rerun, initial, call>>
    /\ pc[r] = "loop"
    /\ loopIx[r] <= Len(existing_folders(argv[r]))
    /\ LET f      == existing_folders(argv[r])[loopIx[r]]
           folder == Intake[f]
           skip(msg) ==
               /\ out' = [out EXCEPT ![r] = msg]
               /\ loopIx' = [loopIx EXCEPT ![r] = @ + 1]
               /\ UNCHANGED <<pc, exitCode, images, videos, config, processed_items>>
       IN  IF ~folder.dir THEN skip("not_found")
           ELSE IF folder.heic = <<>> THEN skip("no_heic")
           ELSE IF folder.mov = <<>> THEN skip("no_mov")
           ELSE \E heic_ok \in Outcomes, mov_ok \in Outcomes :
                LET dest_heic   == folder.heic[1].file
                    output_name == sanitize_filename(folder.name)
                    mov_output  == FileName(output_name, "mov")
                    copies      == Lookup(images, dest_heic) = <<>>
                IN  /\ copies \/ heic_ok
                    /\ IF ~heic_ok
                       THEN \* shutil.copy2 raises: line 263 is in no try block
                            /\ Exit(r, 1, "error")
                            /\ UNCHANGED <<images, videos, config, processed_items, loopIx>>
                       ELSE LET images2 == CopyHeic(images, dest_heic, f)
                                videos2 == IF mov_ok
                                           THEN [videos EXCEPT ![mov_output] =
                                                   <<[src |-> f, ms |-> folder.mov[1].ms,
                                                      bytes |-> folder.mov[1].bytes]>>]
                                           ELSE videos
                                video   == IF mov_ok THEN videos2[mov_output] ELSE <<>>
                                item    == create_gallery_item(
                                               dest_heic, images2[dest_heic], mov_output, video,
                                               IF video # <<>>
                                               THEN get_video_duration(video, installed)
                                               ELSE 1000,
                                               Tags(argv[r]), folder.name, now)
                                before  == ItemIdsOf(config[r].categories[category[r]].items)
                            IN  /\ images' = images2
                                /\ videos' = videos2
                                /\ config' = [config EXCEPT ![r] = UpsertInto(@, category[r], item)]
                                /\ processed_items' = [processed_items EXCEPT ![r] = Append(@, item.id)]
                                /\ out' = [out EXCEPT ![r] =
                                             IF FirstIndex(before, item.id) # 0
                                             THEN (IF video # <<>> THEN "updated_live" ELSE "updated_static")
                                             ELSE (IF video # <<>> THEN "added_live" ELSE "added_static")]
                                /\ loopIx' = [loopIx EXCEPT ![r] = @ + 1]
                                /\ UNCHANGED <<pc, exitCode>>
    /\ UNCHANGED <<manifest, installed, faults, now, nruns, lastSaver, argv, category,
                   atLoad, stale>>

\* open(config_path, 'w'): the file is truncated as it is opened.
OpenForWrite(r) ==
    /\ manifest' = File(Invalid("truncated"), 0)
    /\ stale' = [q \in Procs |->
                   stale[q] \/ (q # r /\ pc[q] \in {"loop", "write", "q_open", "q_write", "h_open", "h_write"})]

\* What the file holds once doc is written from its start: the bytes of a
\* longer content the file already held stay behind the document.
FileWrite(file, doc) ==
    IF file.len > DocLen(doc)
    THEN File(Invalid("mixed"), file.len)
    ELSE JsonFile(doc)

\* A write that fails part way.
FileWritePart(file, doc) ==
    File(Invalid("partial"), IF file.len > DocLen(doc) - 1 THEN file.len ELSE DocLen(doc) - 1)

\* save_gallery_config, lines 186-188: set lastUpdated and open the file.
SaveGalleryConfigOpen(r) ==
    /\ UNCHANGED <<rerun, initial, call>>
    /\ pc[r] = "loop"
    /\ loopIx[r] > Len(existing_folders(argv[r]))
    /\ config' = [config EXCEPT ![r] = [@ EXCEPT !.lastUpdated = now,
                                                 !.keys = @ \cup {"lastUpdated"}]]
    /\ \E open_ok \in Outcomes :
          IF open_ok
          THEN /\ OpenForWrite(r)
               /\ pc' = [pc EXCEPT ![r] = "write"]
               /\ UNCHANGED <<exitCode, out>>
          ELSE /\ Exit(r, 1, "error")
               /\ UNCHANGED <<manifest, stale>>
    /\ UNCHANGED <<images, videos, installed, faults, now, nruns, lastSaver, argv, category, loopIx,
                   processed_items, atLoad>>

\* save_gallery_config, line 189: json.dump streams the document into the
\* open file; then main's report, and the run ends.
SaveGalleryConfigWrite(r) ==
    /\ UNCHANGED <<rerun, initial, call>>
    /\ pc[r] = "write"
    /\ \E write_ok \in Outcomes :
          IF write_ok
          THEN /\ manifest' = FileWrite(manifest, config[r])
               /\ lastSaver' = r
               /\ Exit(r, 0, "completed")
          ELSE /\ manifest' = FileWritePart(manifest, config[r])
               /\ Exit(r, 1, "error")
               /\ UNCHANGED lastSaver
    /\ UNCHANGED <<images, videos, installed, faults, now, nruns, argv, config, category,
                   loopIx, processed_items, atLoad, stale>>


\* quick_import.py, main: quick_import and, with --auto, update_gallery_config
\* up to its read of the manifest (lines 143-158).  An exception there is
\* caught nowhere: the interpreter exits with code 1.
QuickImport(r) ==
    /\ UNCHANGED <<rerun, initial, call>>
    /\ pc[r] = "quick"
    /\ LET name == argv[r].name
           video_extension ==
               IF Lookup(videos, FileName(name, "MOV")) # <<>> THEN "MOV"
               ELSE IF Lookup(videos, FileName(name, "mov")) # <<>> THEN "mov" ELSE ""
           image_extension ==
               IF Lookup(images, FileName(name, "HEIC")) # <<>> THEN "HEIC"
               ELSE IF Lookup(images, FileName(name, "heic")) # <<>> THEN "heic" ELSE ""
       IN  IF video_extension = "" THEN
               Exit(r, 0, "no_video") /\ UNCHANGED <<config, atLoad>>
           ELSE IF image_extension = "" THEN
               Exit(r, 0, "no_heic") /\ UNCHANGED <<config, atLoad>>
           ELSE LET video == Lookup(videos, FileName(name, video_extension))
                    image == Lookup(images, FileName(name, image_extension))
                    entry == QuickEntry(name, argv[r].title, argv[r].category,
                                        argv[r].premium, image_extension, image,
                                        video_extension, video,
                                        quick_get_video_duration(video, installed),
                                        now)
                IN  IF ~argv[r].auto THEN
                        Exit(r, 0, "printed") /\ UNCHANGED <<config, atLoad>>
                    ELSE /\ atLoad' = [atLoad EXCEPT ![r] = manifest]
                         /\ IF manifest.kind # "json" \/ "categories" \notin manifest.doc.keys
                            THEN Exit(r, 1, "traceback") /\ UNCHANGED config
                            ELSE /\ config' = [config EXCEPT ![r] =
                                                 QuickUpdate(manifest.doc, entry, argv[r].category)]
                                 /\ pc' = [pc EXCEPT ![r] = "q_open"]
                                 /\ UNCHANGED <<exitCode, out>>
    /\ UNCHANGED <<manifest, images, videos, installed, faults, now, nruns, lastSaver, argv,
                   category, loopIx, processed_items, stale>>

\* update_gallery_config, line 161: open(config_path, 'w').
UpdateGalleryConfigOpen(r) ==
    /\ UNCHANGED <<rerun, initial, call>>
    /\ pc[r] = "q_open"
    /\ \E open_ok \in Outcomes :
          IF open_ok
          THEN /\ OpenForWrite(r)
               /\ pc' = [pc EXCEPT ![r] = "q_write"]
               /\ UNCHANGED <<exitCode, out>>
          ELSE /\ Exit(r, 1, "traceback")
               /\ UNCHANGED <<manifest, stale>>
    /\ UNCHANGED <<images, videos, installed, faults, now, nruns, lastSaver, argv, config, category,
                   loopIx, processed_items, atLoad>>

\* update_gallery_config, lines 162-163: json.dump and the trailing newline.
UpdateGalleryConfigWrite(r) ==
    /\ UNCHANGED <<rerun, initial, call>>
    /\ pc[r] = "q_write"
    /\ \E write_ok \in Outcomes :
          IF write_ok
          THEN /\ manifest' = FileWrite(manifest, config[r])
               /\ lastSaver' = r
               /\ Exit(r, 0, "completed")
          ELSE /\ manifest' = FileWritePart(manifest, config[r])
               /\ Exit(r, 1, "traceback")
               /\ UNCHANGED lastSaver
    /\ UNCHANGED <<images, videos, installed, faults, now, nruns, argv, config, category,
                   loopIx, processed_items, atLoad, stale>>

\* update_to_heic, lines 17-33: the items whose images/<id>.HEIC exists,
\* each with its imageURL and thumbnailURL set to that file.
RECURSIVE items_to_keep(_, _)
items_to_keep(items, imgs) ==
    IF items = <<>> THEN <<>>
    ELSE LET item == items[1]
             heic_path == FileName(item.id, "HEIC")
         IN  IF Lookup(imgs, heic_path) # <<>>
             THEN <<[item EXCEPT !.imageURL = URL("images", heic_path),
                                 !.thumbnailURL = URL("images", heic_path)]>>
                  \o items_to_keep(Tail(items), imgs)
             ELSE items_to_keep(Tail(items), imgs)

\* update_to_heic.py, lines 10-33: read the manifest and keep, in every
\* category, the items that have a HEIC file.  An exception is caught
\* nowhere: the interpreter exits with code 1.
UpdateToHeic(r) ==
    /\ UNCHANGED <<rerun, initial, call>>
    /\ pc[r] = "heic"
    /\ atLoad' = [atLoad EXCEPT ![r] = manifest]
    /\ IF manifest.kind # "json" \/ "categories" \notin manifest.doc.keys
       THEN Exit(r, 1, "traceback") /\ UNCHANGED config
       ELSE /\ config' = [config EXCEPT ![r] =
                            [manifest.doc EXCEPT
                               !.categories = [c \in 1..Len(@) |->
                                                 [@[c] EXCEPT !.items = items_to_keep(@, images)]]]]
            /\ pc' = [pc EXCEPT ![r] = "h_open"]
            /\ UNCHANGED <<exitCode, out>>
    /\ UNCHANGED <<manifest, images, videos, installed, faults, now, nruns, lastSaver, argv,
                   category, loopIx, processed_items, stale>>

\* update_to_heic, line 36: open(config_path, 'w').
UpdateToHeicOpen(r) ==
    /\ UNCHANGED <<rerun, initial, call>>
    /\ pc[r] = "h_open"
    /\ \E open_ok \in Outcomes :
          IF open_ok
          THEN /\ OpenForWrite(r)
               /\ pc' = [pc EXCEPT ![r] = "h_write"]
               /\ UNCHANGED <<exitCode, out>>
          ELSE /\ Exit(r, 1, "traceback")
               /\ UNCHANGED <<manifest, stale>>
    /\ UNCHANGED <<images, videos, installed, faults, now, nruns, lastSaver, argv, config, category,
                   loopIx, processed_items, atLoad>>

\* update_to_heic, lines 37-38: json.dump and the trailing newline.
UpdateToHeicWrite(r) ==
    /\ UNCHANGED <<rerun, initial, call>>
    /\ pc[r] = "h_write"
    /\ \E write_ok \in Outcomes :
          IF write_ok
          THEN /\ manifest' = FileWrite(manifest, config[r])
               /\ lastSaver' = r
               /\ Exit(r, 0, "completed")
          ELSE /\ manifest' = FileWritePart(manifest, config[r])
               /\ Exit(r, 1, "traceback")
               /\ UNCHANGED lastSaver
    /\ UNCHANGED <<images, videos, installed, faults, now, nruns, argv, config, category,
                   loopIx, processed_items, atLoad, stale>>

\* The run is terminated from outside (there is no cancellation support).
Kill(r) ==
    /\ UNCHANGED <<rerun, initial, call>>
    /\ Running(r)
    /\ pc' = [pc EXCEPT ![r] = "killed"]
    /\ out' = [out EXCEPT ![r] = "killed"]
    /\ config' = [config EXCEPT ![r] = NoDoc]
    /\ category' = [category EXCEPT ![r] = 0]
    /\ loopIx' = [loopIx EXCEPT ![r] = 0]
    /\ processed_items' = [processed_items EXCEPT ![r] = <<>>]
    /\ UNCHANGED <<manifest, images, videos, installed, faults, now, nruns, lastSaver, argv,
                   exitCode, atLoad, stale>>

\* Time passes.  The clock is observed only where a run reads it (lines 165,
\* 179, 186; quick_import.py line 126), so it advances before such a read.
Tick ==
    /\ UNCHANGED <<rerun, initial, call>>
    /\ \E r \in Procs : pc[r] \in {"load", "loop", "quick"}
    /\ now < MaxTime
    /\ now' = now + 1
    /\ UNCHANGED <<manifest, images, videos, installed, faults, nruns, lastSaver, pc, argv,
                   config, category, loopIx, processed_items, exitCode, out, atLoad, stale>>

BatchStep(r) ==
    \/ StartBatch(r)
    \/ Main(r)
    \/ ProcessLoad(r)
    \/ ProcessFolder(r)
    \/ SaveGalleryConfigOpen(r)
    \/ SaveGalleryConfigWrite(r)

QuickStep(r) ==
    \/ StartQuick(r)
    \/ QuickImport(r)
    \/ UpdateGalleryConfigOpen(r)
    \/ UpdateGalleryConfigWrite(r)

HeicStep(r) ==
    \/ StartHeic(r)
    \/ UpdateToHeic(r)
    \/ UpdateToHeicOpen(r)
    \/ UpdateToHeicWrite(r)

\* One run at a time, of any of the scripts; a run can be terminated.
Next == (\E r \in {1} : BatchStep(r) \/ QuickStep(r) \/ HeicStep(r) \/ Kill(r)) \/ Tick

Spec == Init /\ [][Next]_vars

SpecQuiet == InitQuiet /\ [][Next]_vars

\* Batch imports that overlap on the same gallery root, each with a folder
\* that holds a pair.
StartOverlapping(r) ==
    \E args \in {a \in BatchArgs : a.folders \in {<<4, 6, 1>>, <<2, 3>>}} : StartRun(r, args)

NextRace ==
    \/ \E r \in Procs :
          \/ StartOverlapping(r)
          \/ Main(r)
          \/ ProcessLoad(r)
          \/ ProcessFolder(r)
          \/ SaveGalleryConfigOpen(r)
          \/ SaveGalleryConfigWrite(r)
    \/ Tick

SpecRace == InitRace /\ [][NextRace]_vars

--------------------------------------------------------------------------
\* The helper functions on their own, over the arguments they can be given.

MaxNameLen == 3

\* Characters of each kind that sanitize_filename tells apart: a capital, a
\* small letter, a digit, the underscore, a space, a dot, a slash, a dash.
NameChars == {"A", "b", "1", "_", " ", ".", "/", "-"}

RECURSIVE NamesOfLen(_)
NamesOfLen(n) ==
    IF n = 0 THEN {<<>>}
    ELSE {Append(s, c) : s \in NamesOfLen(n - 1), c \in NameChars}

Names == UNION {NamesOfLen(n) : n \in 0..MaxNameLen}

Others ==
    <<manifest, images, videos, installed, faults, now, nruns, lastSaver, pc, argv,
      config, category, loopIx, processed_items, exitCode, out, atLoad, stale,
      rerun, initial>>

\* sanitize_filename(x), and sanitize_filename of the result.
Sanitize ==
    /\ call = NoCall
    /\ \E x \in Names :
          call' = [fn |-> "sanitize_filename", arg |-> x,
                   res |-> <<sanitize_filename(x), sanitize_filename(sanitize_filename(x))>>]
    /\ UNCHANGED Others

\* A byte count is its digits in base 1024, the lowest first: the bytes, then
\* the KB, MB, GB and TB, then the thousands of TB (below 2^53, where the
\* float of the count and its divisions by 1024.0 are exact).
SizeDigits == {0, 1, 256, 512, 768, 1023}

Sizes ==
    {<<b, k, m, g, t, p>> : b \in SizeDigits, k \in SizeDigits, m \in {0, 1, 1023},
                            g \in {0, 1, 1023}, t \in {0, 1, 1023}, p \in {0, 1}}

Units == <<"bytes", "KB", "MB", "GB", "TB">>

\* The loop of get_file_size, lines 103-110: the divisions by 1024.0 before
\* size_bytes < 1024.0, four when the loop runs out (line 112).
UnitOf(digits) ==
    LET fits == {u \in 0..3 : \A i \in (u + 2)..Len(digits) : digits[i] = 0}
    IN  IF fits = {} THEN 4 ELSE CHOOSE u \in fits : \A v \in fits : u <= v

\* Ten times the digits below the unit: the carry is the first decimal, the
\* digits that stay are what the rounding looks at.
RECURSIVE TimesTen(_, _)
TimesTen(low, carry) ==
    IF low = <<>> THEN [carry |-> carry, rest |-> <<>>]
    ELSE LET t    == 10 * low[1] + carry
             more == TimesTen(Tail(low), t \div 1024)
         IN  [carry |-> more.carry, rest |-> <<t % 1024>> \o more.rest]

\* f"{size_bytes:.1f}": the tenths of the mantissa, rounded to the nearest and
\* to the even one when the rest is a half.
Tenths(digits, u) ==
    LET whole == IF u = 4 THEN digits[5] + 1024 * digits[6] ELSE digits[u + 1]
        ten   == TimesTen(SubSeq(digits, 1, u), 0)
        top   == ten.rest[u]
        below == \E i \in 1..(u - 1) : ten.rest[i] # 0
        down  == 10 * whole + ten.carry
        up    == \/ top > 512
                 \/ top = 512 /\ below
                 \/ top = 512 /\ ~below /\ down % 2 = 1
    IN  IF up THEN down + 1 ELSE down

\* get_file_size, lines 103-112: the formatted size, as the digits before
\* the point, the one after it if there is one, and the unit.
format_size(digits) ==
    LET u == UnitOf(digits)
    IN  IF u = 0 THEN [whole |-> digits[1], decimals |-> <<>>, unit |-> Units[1]]
        ELSE LET t == Tenths(digits, u)
             IN  [whole |-> t \div 10, decimals |-> <<t % 10>>, unit |-> Units[u + 1]]

\* get_file_size on a file of the size.
FormatSize ==
    /\ call = NoCall
    /\ \E n \in Sizes :
          call' = [fn |-> "get_file_size", arg |-> n, res |-> <<format_size(n)>>]
    /\ UNCHANGED Others

InitPure ==
    /\ manifest = File(Absent, 0)
    /\ installed = {"ffmpeg", "ffprobe"}
    /\ faults = FALSE
    /\ InitRuns

NextPure == Sanitize \/ FormatSize

SpecPure == InitPure /\ [][NextPure]_vars

--------------------------------------------------------------------------
\* What the properties below speak of.

IsBatch(r) == argv[r].script = "batch"

\* The run has read the manifest and found its category.
HasCategory(r) == category[r] # 0

TargetItems(r) == config[r].categories[category[r]].items

UniqueIds(ids) == \A i, j \in 1..Len(ids) : ids[i] = ids[j] => i = j

ItemIdsUnique(doc) ==
    \A c \in 1..Len(doc.categories) : UniqueIds(ItemIdsOf(doc.categories[c].items))

Range(seq) == {seq[i] : i \in 1..Len(seq)}

\* The file is not valid JSON, or it has no categories field.
Malformed(file) ==
    \/ file.kind = "invalid"
    \/ file.kind = "json" /\ "categories" \notin file.doc.keys

\* A folder that holds a pair: an image and a video.
HoldsPair(f) == Intake[f].dir /\ Intake[f].heic # <<>> /\ Intake[f].mov # <<>>

\* The run is in the loop and has just done a folder.
AfterFolder(r) == IsBatch(r) /\ pc[r] = "loop" /\ loopIx[r] > 1

LastFolder(r) == existing_folders(argv[r])[loopIx[r] - 1]

--------------------------------------------------------------------------
\* C1: item ids stay unique in every category, on disk and in memory; a turn
\* of the import loop that records an item replaces the item that has its id,
\* at the same index and with nothing else changed, or else appends it.
C1_Step ==
    /\ manifest'.kind = "json" => ItemIdsUnique(manifest'.doc)
    /\ \A r \in Procs :
          /\ ItemIdsUnique(config'[r])
          /\ (pc[r] = "loop" /\ Len(processed_items'[r]) = Len(processed_items[r]) + 1) =>
               LET old == TargetItems(r)
                   new == config'[r].categories[category[r]].items
                   id  == processed_items'[r][Len(processed_items'[r])]
                   at  == FirstIndex(ItemIdsOf(old), id)
                   imported(item) ==
                       /\ item.id = id
                       /\ item.tags = Tags(argv[r])
                       /\ item.createdAt = now
                       /\ item.title = TitleOf(Intake[existing_folders(argv[r])[loopIx[r]]].name)
               IN  IF at # 0
                   THEN /\ Len(new) = Len(old)
                        /\ imported(new[at])
                        /\ \A k \in 1..Len(old) : k # at => new[k] = old[k]
                   ELSE /\ Len(new) = Len(old) + 1
                        /\ imported(new[Len(new)])
                        /\ SubSeq(new, 1, Len(old)) = old

C1_UpsertById == [][C1_Step]_vars

\* An item replaced where the category holds other items too.
C1_Witness ==
    \E r \in Procs :
        /\ AfterFolder(r)
        /\ out[r] \in {"updated_live", "updated_static"}
        /\ Len(TargetItems(r)) >= 2

\* C2 (as claimed): when a batch run that read the manifest has ended, the
\* file holds the complete new document if the run ended well, and the
\* document the run read if it failed.
C2_SaveLeavesCompleteDocument ==
    \A r \in Procs :
        (IsBatch(r) /\ pc[r] = "exited" /\ HasCategory(r)) =>
            IF exitCode[r] = 0
            THEN manifest = JsonFile(config[r])
            ELSE manifest = atLoad[r]

\* C3: a run that read a malformed manifest has ended with exit code 1 and
\* the file is as the run read it.
C3_MalformedManifestIsFatal ==
    \A r \in Procs :
        Malformed(atLoad[r]) =>
            /\ pc[r] = "exited"
            /\ exitCode[r] = 1
            /\ manifest = atLoad[r]

\* A batch run met a JSON file with no categories field.
C3_Witness ==
    \E r \in Procs :
        /\ IsBatch(r)
        /\ atLoad[r].kind = "json"
        /\ Malformed(atLoad[r])
        /\ pc[r] = "exited"

\* Both overlapping runs have ended with exit code 0.
BothSaved == \A r \in Procs : IsBatch(r) /\ pc[r] = "exited" /\ exitCode[r] = 0

\* C4 (as claimed): when both runs have saved and the run that saved last had
\* read the manifest before the other run opened it for writing, the file is
\* exactly the document of the run that saved last.
C4_LastWriterWins ==
    (BothSaved /\ stale[lastSaver]) => manifest = JsonFile(config[lastSaver])

\* C5 (as claimed): a batch run that entered the loop ends only after it has
\* attempted every folder, and when it ends well the item of every folder
\* that holds a pair is in its category in the file.
C5_FailureNeverStopsBatch ==
    \A r \in Procs :
        (IsBatch(r) /\ pc[r] = "exited" /\ HasCategory(r)) =>
            /\ loopIx[r] > Len(existing_folders(argv[r]))
            /\ exitCode[r] = 0 =>
                 \A f \in Range(existing_folders(argv[r])) :
                     HoldsPair(f) =>
                         sanitize_filename(Intake[f].name) \in
                             Range(ItemIdsOf(manifest.doc.categories[category[r]].items))

\* The run's category holds a static item for folder f.
StaticItemFor(r, f) ==
    \E i \in 1..Len(TargetItems(r)) :
        LET item == TargetItems(r)[i]
        IN  /\ item.id = sanitize_filename(Intake[f].name)
            /\ item.videoURL = NoURL
            /\ item.duration = 10
            /\ item.tags = Tags(argv[r])
            /\ item.isPremium = ("premium" \in Range(Tags(argv[r])))

\* C6 (as claimed): a folder whose video is absent or could not be copied
\* has a static item.
C6_NoMotionIsRecordedStatic ==
    \A r \in Procs :
        AfterFolder(r) =>
            LET f == LastFolder(r)
            IN  (/\ Intake[f].dir
                 /\ Intake[f].heic # <<>>
                 /\ Intake[f].mov = <<>> \/ out[r] \in {"added_static", "updated_static"})
                => StaticItemFor(r, f)

\* C6 (amended): a folder whose video was found and could not be copied has
\* a static item; a folder with no video is skipped and has no item.
C6_UncopiedMotionIsRecordedStatic ==
    \A r \in Procs :
        AfterFolder(r) =>
            LET f == LastFolder(r)
            IN  /\ out[r] \in {"added_static", "updated_static"} =>
                     Intake[f].mov # <<>> /\ StaticItemFor(r, f)
                /\ (Intake[f].dir /\ Intake[f].heic # <<>> /\ Intake[f].mov = <<>>) =>
                     /\ out[r] = "no_mov"
                     /\ sanitize_filename(Intake[f].name) \notin Range(ItemIdsOf(TargetItems(r)))

\* A video that was found could not be copied.
C6_Witness ==
    \E r \in Procs : AfterFolder(r) /\ out[r] = "added_static"

\* One complete run of args from file, with no failure: the config it saves.
RECURSIVE ImportAll(_, _, _, _, _, _)
ImportAll(cfg, ix, folders, tags, imgs, tools) ==
    IF folders = <<>> THEN cfg
    ELSE LET f == Head(folders)
             folder == Intake[f]
         IN  IF ~HoldsPair(f) THEN ImportAll(cfg, ix, Tail(folders), tags, imgs, tools)
             ELSE LET video == <<[src |-> f, ms |-> folder.mov[1].ms,
                                  bytes |-> folder.mov[1].bytes]>>
                      item == create_gallery_item(
                                  folder.heic[1].file, imgs[folder.heic[1].file],
                                  FileName(sanitize_filename(folder.name), "mov"), video,
                                  get_video_duration(video, tools), tags, folder.name, 0)
                  IN  ImportAll(UpsertInto(cfg, ix, item), ix, Tail(folders), tags, imgs, tools)

OneCompleteRun(file, args, imgs, tools) ==
    LET loaded == load_gallery_config(file, 0)
        found  == find_or_create_category(loaded.config, Tags(args)[1])
    IN  ImportAll(found.config, found.ix, existing_folders(args), Tags(args), imgs, tools)

\* A document with its timestamps blanked.
NoTimes(doc) ==
    [doc EXCEPT
       !.lastUpdated = 0,
       !.categories = [c \in 1..Len(@) |->
                         [@[c] EXCEPT !.items = [i \in 1..Len(@) |->
                                                   [@[i] EXCEPT !.createdAt = 0]]]]]

\* C7 (as claimed): the second run of a command line, after a first run that
\* completed or was terminated, ends with the manifest of one complete run.
C7_RerunIsIdempotent ==
    \A r \in Procs :
        (/\ IsBatch(r)
         /\ rerun[r] # ""
         /\ nruns = 2
         /\ pc[r] = "exited"
         /\ existing_folders(argv[r]) # <<>>
         /\ ~Malformed(initial))
        => /\ exitCode[r] = 0
           /\ manifest.kind = "json"
           /\ NoTimes(manifest.doc) =
                NoTimes(OneCompleteRun(initial, argv[r], images, installed))

\* C8 (as claimed): a turn of the import loop leaves the createdAt of every
\* item whose id stays in the category as it was.
C8_Step ==
    \A r \in Procs :
        (pc[r] = "loop" /\ pc'[r] = "loop") =>
            LET old == TargetItems(r)
                new == config'[r].categories[category[r]].items
            IN  \A i \in 1..Len(old), j \in 1..Len(new) :
                    old[i].id = new[j].id => new[j].createdAt = old[i].createdAt

C8_CreatedAtKept == [][C8_Step]_vars

UniqueCategoryIds(doc) == UniqueIds(CategoryIds(doc))

\* C9: category ids stay unique; the load step of a run leaves the
\* categories it read as they are and takes the first that has the id, or
\* appends one empty category and takes it; and the items of a run that
\* ended well are, in the file, in the category the run took.
C9_Step ==
    /\ manifest'.kind = "json" => UniqueCategoryIds(manifest'.doc)
    /\ \A r \in Procs :
          /\ UniqueCategoryIds(config'[r])
          /\ (pc[r] = "load" /\ pc'[r] = "loop") =>
               LET read  == IF manifest.kind = "absent" THEN FreshConfig(now) ELSE manifest.doc
                   want  == Tags(argv[r])[1]
                   first == FirstIndex(CategoryIds(read), want)
                   cats  == config'[r].categories
               IN  IF first # 0
                   THEN cats = read.categories /\ category'[r] = first
                   ELSE /\ Len(cats) = Len(read.categories) + 1
                        /\ SubSeq(cats, 1, Len(read.categories)) = read.categories
                        /\ cats[Len(cats)].id = want
                        /\ cats[Len(cats)].items = <<>>
                        /\ category'[r] = Len(cats)
          /\ (IsBatch(r) /\ pc[r] = "write" /\ pc'[r] = "exited" /\ exitCode'[r] = 0) =>
               /\ manifest'.doc.categories[category[r]].id = Tags(argv[r])[1]
               /\ Range(processed_items[r]) \subseteq
                    Range(ItemIdsOf(manifest'.doc.categories[category[r]].items))

C9_CategoryIdsUnique == [][C9_Step]_vars

\* A run took a category that was in the manifest, the second of two.
C9_Witness ==
    \E r \in Procs :
        /\ IsBatch(r)
        /\ pc[r] = "loop"
        /\ category[r] = 2
        /\ Len(atLoad[r].doc.categories) = 2

\* C10 (as claimed): every item in the manifest is premium exactly when
\* "premium" is one of its tags.
C10_PremiumIffTag ==
    manifest.kind = "json" =>
        \A c \in 1..Len(manifest.doc.categories) :
            \A i \in 1..Len(manifest.doc.categories[c].items) :
                LET item == manifest.doc.categories[c].items[i]
                IN  item.isPremium <=> "premium" \in Range(item.tags)

\* The first tag of the command line, "custom" when it gives none.
FirstTag(r) == IF argv[r].tags = <<>> THEN "custom" ELSE argv[r].tags[1]

\* C11: a batch run takes the category whose id is its first tag ("custom"
\* when it has no tag, and then its items' tags are <<"custom">>); a turn of
\* its loop changes no other category; and when it has saved, its items are
\* in that category in the file and every other category the run read has
\* the items it had.
C11_Step ==
    \A r \in Procs :
        IsBatch(r) =>
            /\ (pc[r] = "load" /\ pc'[r] = "loop") =>
                 config'[r].categories[category'[r]].id = FirstTag(r)
            /\ (pc[r] = "loop" /\ pc'[r] = "loop") =>
                 /\ category'[r] = category[r]
                 /\ Len(config'[r].categories) = Len(config[r].categories)
                 /\ \A c \in 1..Len(config[r].categories) :
                        c # category[r] => config'[r].categories[c] = config[r].categories[c]
                 /\ Len(processed_items'[r]) > Len(processed_items[r]) =>
                      \E i \in 1..Len(config'[r].categories[category[r]].items) :
                          LET item == config'[r].categories[category[r]].items[i]
                          IN  /\ item.id = processed_items'[r][Len(processed_items'[r])]
                              /\ item.tags = IF argv[r].tags = <<>> THEN <<"custom">>
                                             ELSE argv[r].tags
            /\ (pc[r] = "write" /\ pc'[r] = "exited" /\ exitCode'[r] = 0) =>
                 LET saved == manifest'.doc.categories
                 IN  /\ saved[category[r]].id = FirstTag(r)
                     /\ Range(processed_items[r]) \subseteq Range(ItemIdsOf(saved[category[r]].items))
                     /\ atLoad[r].kind = "json" =>
                          \A c \in 1..Len(atLoad[r].doc.categories) :
                              c # category[r] => saved[c] = atLoad[r].doc.categories[c]

C11_CategoryFromFirstTag == [][C11_Step]_vars

\* A run with no tag has saved items beside a category that was there.
C11_Witness ==
    \E r \in Procs :
        /\ IsBatch(r)
        /\ argv[r].tags = <<>>
        /\ pc[r] = "exited"
        /\ exitCode[r] = 0
        /\ processed_items[r] # <<>>
        /\ manifest.kind = "json"
        /\ Len(manifest.doc.categories) = 2
        /\ manifest.doc.categories[1].items # <<>>

\* C12: a file that is in images/ keeps its content in every step.
C12_Step ==
    \A file \in DOMAIN images : images[file] # <<>> => images'[file] = images[file]

C12_ImagesNeverOverwritten == [][C12_Step]_vars

\* A folder was imported whose image has the name of a file that another
\* folder had put in images/.
C12_Witness ==
    \E r \in Procs :
        /\ AfterFolder(r)
        /\ out[r] \in {"added_live", "added_static", "updated_live", "updated_static"}
        /\ Intake[LastFolder(r)].heic # <<>>
        /\ images[Intake[LastFolder(r)].heic[1].file][1].src # LastFolder(r)

\* C13 (as claimed): when ffmpeg or ffprobe is missing, a batch run ends at
\* the startup check with exit code 1: it never reads the manifest, copies a
\* file, or writes the manifest.
C13_MissingToolIsFatalAtStartup ==
    \A r \in Procs :
        (IsBatch(r) /\ {"ffmpeg", "ffprobe"} \ installed # {}) =>
            /\ pc[r] \in {"main", "exited", "killed"}
            /\ pc[r] = "exited" => exitCode[r] = 1
            /\ manifest = initial
            /\ \A file \in DOMAIN images : images[file] = <<>>
            /\ \A file \in DOMAIN videos : videos[file] = <<>>

\* C14 (as claimed): a step that completes a write of the manifest, by any
\* script, leaves in the file a lastUpdated that is the time of that write.
C14_Step ==
    (manifest' # manifest /\ manifest'.kind = "json") => manifest'.doc.lastUpdated = now'

C14_LastUpdatedOnEverySave == [][C14_Step]_vars

\* The steps of a batch run that load, save and load again, as C15 has them
\* but for the time of the save: a run that finds no manifest starts from
\* version "1.0.0", the time of the load and no category but the one it then
\* appends; the save changes lastUpdated alone and the file is the document
\* saved; the next load returns the file's fields as they are.
C15_Loads(r) ==
    /\ (pc[r] = "load" /\ pc'[r] = "loop" /\ manifest.kind = "absent") =>
         /\ config'[r].version = "1.0.0"
         /\ config'[r].lastUpdated = now
         /\ Len(config'[r].categories) = 1
         /\ config'[r].categories[1].items = <<>>
    /\ (pc[r] = "load" /\ pc'[r] = "loop" /\ manifest.kind = "json") =>
         /\ config'[r].version = manifest.doc.version
         /\ config'[r].lastUpdated = manifest.doc.lastUpdated
         /\ config'[r].baseURL = manifest.doc.baseURL
         /\ SubSeq(config'[r].categories, 1, Len(manifest.doc.categories)) =
              manifest.doc.categories

C15_Saves(r) ==
    /\ (pc[r] = "loop" /\ pc'[r] = "write") =>
         /\ config'[r].version = config[r].version
         /\ config'[r].baseURL = config[r].baseURL
         /\ config'[r].categories = config[r].categories
    /\ (pc[r] = "write" /\ pc'[r] = "exited" /\ exitCode'[r] = 0) =>
         manifest'.kind = "json" /\ manifest'.doc = config[r]

\* C15 (as claimed): and the lastUpdated of the save is strictly later than
\* the one of the fresh manifest.
C15_StepAdvances ==
    \A r \in Procs :
        IsBatch(r) =>
            /\ C15_Loads(r)
            /\ C15_Saves(r)
            /\ (pc[r] = "loop" /\ pc'[r] = "write" /\ atLoad[r].kind = "absent") =>
                 config'[r].lastUpdated > config[r].lastUpdated

C15_Step ==
    \A r \in Procs :
        IsBatch(r) =>
            /\ C15_Loads(r)
            /\ C15_Saves(r)
            /\ (pc[r] = "loop" /\ pc'[r] = "write") => config'[r].lastUpdated = now

C16_SlugifyIdempotent ==
    call.fn = "sanitize_filename" =>
        LET slug == call.res[1]
        IN  /\ \A i \in 1..Len(slug) : slug[i] \in SlugChars
            /\ \A i \in 1..Len(slug) - 1 : ~(slug[i] = "_" /\ slug[i + 1] = "_")
            /\ slug # <<>> => slug[1] # "_" /\ slug[Len(slug)] # "_"
            /\ call.res[2] = slug

\* A name with a directory, a suffix, a capital and edge characters that are
\* replaced gives a slug that is not the name.
C16_Witness ==
    /\ call.fn = "sanitize_filename"
    /\ call.arg = <<"-", "A", ".">>
    /\ call.res[1] = <<"a">>

\* The unit a byte count is to be printed in: that of its highest digit that
\* is not zero, TB at most.
LargestUnit(digits) ==
    LET used == {i \in 1..5 : \E j \in i..Len(digits) : digits[j] # 0}
    IN  IF used = {} THEN 1 ELSE CHOOSE i \in used : \A j \in used : j <= i

\* C17 (as claimed): the formatted size has the largest unit whose mantissa
\* is below 1024, one decimal (none for bytes) and a mantissa below 1024;
\* 0 is "0 bytes", 1023 "1023 bytes", 1024 "1.0 KB", 1536 "1.5 KB" and
\* 1024**4 "1.0 TB".
C17_FormatSize ==
    call.fn = "get_file_size" =>
        LET n == call.arg
            f == call.res[1]
        IN  /\ f.unit = Units[LargestUnit(n)]
            /\ Len(f.decimals) = IF f.unit = "bytes" THEN 0 ELSE 1
            /\ f.whole < 1024
            /\ n = <<0, 0, 0, 0, 0, 0>> => f.whole = 0 /\ f.unit = "bytes"
            /\ n = <<1023, 0, 0, 0, 0, 0>> => f.whole = 1023 /\ f.unit = "bytes"
            /\ n = <<0, 1, 0, 0, 0, 0>> => f.whole = 1 /\ f.decimals = <<0>> /\ f.unit = "KB"
            /\ n = <<512, 1, 0, 0, 0, 0>> => f.whole = 1 /\ f.decimals = <<5>> /\ f.unit = "KB"
            /\ n = <<0, 0, 0, 0, 1, 0>> => f.whole = 1 /\ f.decimals = <<0>> /\ f.unit = "TB"

\* The items of a document, of every category.
ItemsOf(doc) ==
    UNION {Range(doc.categories[c].items) : c \in 1..Len(doc.categories)}

\* C18 (as claimed): with no ffprobe to run, every item that a run has
\* written has the duration 1.0 where its video was probed, and a batch run
\* that has read the manifest is not aborted.
C18_ProbeFallsBackToOne ==
    "ffprobe" \notin installed =>
        /\ (manifest.kind = "json" /\ ~Malformed(manifest)) =>
             \A item \in ItemsOf(manifest.doc) :
                 (~Malformed(initial) /\ initial.kind = "json" /\ item \in ItemsOf(initial.doc))
                 \/ item.duration = 10
        /\ \A r \in Procs :
             (IsBatch(r) /\ pc[r] = "exited" /\ HasCategory(r)) => exitCode[r] = 0

\* C19 (as claimed): a batch run that has ended has exit code 0 only if it
\* processed an item, and exit code 1 when ffmpeg is missing, when no folder
\* of its command line yields an item, and when an exception ended it.
C19_ExitZeroOnlyWithItems ==
    \A r \in Procs :
        (IsBatch(r) /\ pc[r] = "exited") =>
            /\ exitCode[r] \in {0, 1}
            /\ exitCode[r] = 0 => processed_items[r] # <<>>
            /\ "ffmpeg" \notin installed => exitCode[r] = 1
            /\ (\A f \in Range(argv[r].folders) : ~HoldsPair(f)) => exitCode[r] = 1
            /\ out[r] = "error" => exitCode[r] = 1

\* The id of the item a run of quick_import.py imports.
QuickId(r) == [i \in 1..Len(argv[r].name) |->
                 IF Lower(argv[r].name[i]) = " " THEN "_" ELSE Lower(argv[r].name[i])]

\* The item carries the fields of the import that the run makes of its id.
HasImportedFields(r, item) ==
    CASE argv[r].script = "batch" -> item.tags = Tags(argv[r])
      [] argv[r].script = "quick" ->
             item.tags = <<argv[r].category, "custom">> /\ item.isPremium = argv[r].premium
      [] OTHER -> TRUE

\* The ids the run imports.
Imported(r) ==
    CASE argv[r].script = "batch" -> Range(processed_items[r])
      [] argv[r].script = "quick" -> {QuickId(r)}
      [] OTHER -> {}

\* C20 (as claimed): when a run of any script completes a write of the
\* manifest, every category the run read has in the file the items it had,
\* each at its index and under its id, followed by items whose ids it did not
\* have; and an item of the run's category whose id the run imported has the
\* fields of that import.
C20_Step ==
    \A r \in Procs :
        (/\ pc[r] \in {"write", "q_write", "h_write"}
         /\ pc'[r] = "exited"
         /\ exitCode'[r] = 0
         /\ atLoad[r].kind = "json") =>
            \A c \in 1..Len(atLoad[r].doc.categories) :
                LET old == atLoad[r].doc.categories[c].items
                    new == manifest'.doc.categories[c].items
                IN  /\ Len(new) >= Len(old)
                    /\ \A i \in 1..Len(old) : new[i].id = old[i].id
                    /\ \A i \in (Len(old) + 1)..Len(new) :
                           new[i].id \notin Range(ItemIdsOf(old))
                    /\ UniqueIds(ItemIdsOf(new))
                    /\ \A i \in 1..Len(old) :
                           (/\ new[i].id \in Imported(r)
                            /\ atLoad[r].doc.categories[c].id = argv[r].category
                               \/ c = category[r])
                           => HasImportedFields(r, new[i])

C20_UpsertIsTheOnlyMutation == [][C20_Step]_vars

--------------------------------------------------------------------------
\* Two folders of one batch run whose names give the same id.

\* The folders of the run that hold a pair and whose name gives the id.
PairsOf(r, id) ==
    {i \in 1..Len(existing_folders(argv[r])) :
        /\ HoldsPair(existing_folders(argv[r])[i])
        /\ sanitize_filename(Intake[existing_folders(argv[r])[i]].name) = id}

\* The ids that two or more folders of the run give.
SharedIds(r) == {id \in ItemIds : Cardinality(PairsOf(r, id)) >= 2}

FirstOf(r, id) == CHOOSE i \in PairsOf(r, id) : \A j \in PairsOf(r, id) : i <= j

\* The folder with the id that the run processes last.
LaterFolder(r, id) ==
    existing_folders(argv[r])[CHOOSE i \in PairsOf(r, id) : \A j \in PairsOf(r, id) : j <= i]

\* The items the run's category held in the manifest the run read.
ItemsAtLoad(r) ==
    IF atLoad[r].kind # "json" THEN <<>>
    ELSE LET c == FirstIndex(CategoryIds(atLoad[r].doc), category_name(Tags(argv[r])))
         IN  IF c = 0 THEN <<>> ELSE atLoad[r].doc.categories[c].items

\* The index at which the first folder with the id put its item: the index
\* of the item it replaced, or the end of the list as it was then.
InsertedAt(r, id) ==
    LET held    == ItemIdsOf(ItemsAtLoad(r))
        earlier == {sanitize_filename(Intake[existing_folders(argv[r])[i]].name) :
                        i \in {j \in 1..(FirstOf(r, id) - 1) :
                                  HoldsPair(existing_folders(argv[r])[j])}}
    IN  IF FirstIndex(held, id) # 0 THEN FirstIndex(held, id)
        ELSE Len(held) + Cardinality(earlier \ Range(held)) + 1

\* The batch run has saved the manifest and ended.
SavedBatch(r) ==
    IsBatch(r) /\ pc[r] = "exited" /\ exitCode[r] = 0 /\ out[r] = "completed"

SavedItems(r) == manifest.doc.categories[category[r]].items

\* The indices of the saved category that hold the id.
SavedAt(r, id) == {k \in 1..Len(SavedItems(r)) : SavedItems(r)[k].id = id}

\* The item is what the later folder with the id gives, with its video when
\* live and as a static image otherwise.
IsItemOfLater(r, id, item, live) ==
    LET f          == LaterFolder(r, id)
        dest_heic  == Intake[f].heic[1].file
        mov_output == FileName(id, "mov")
        video      == IF live
                      THEN <<[src |-> f, ms |-> Intake[f].mov[1].ms,
                              bytes |-> Intake[f].mov[1].bytes]>>
                      ELSE <<>>
    IN  item = create_gallery_item(dest_heic, Lookup(images, dest_heic), mov_output, video,
                                   IF live THEN get_video_duration(video, installed) ELSE 1000,
                                   Tags(argv[r]), Intake[f].name, item.createdAt)

\* videos/<id>.mov is the copy of the later folder's video.
HoldsLaterVideo(r, id) ==
    /\ Lookup(videos, FileName(id, "mov")) # <<>>
    /\ Lookup(videos, FileName(id, "mov"))[1].src = LaterFolder(r, id)

\* Every folder with the id is among the processed items.
AllCounted(r, id) ==
    Cardinality({i \in 1..Len(processed_items[r]) : processed_items[r][i] = id})
        = Cardinality(PairsOf(r, id))

\* One item with the id, where the first folder put it.
OneItemInPlace(r, id) ==
    /\ manifest.kind = "json"
    /\ category[r] \in 1..Len(manifest.doc.categories)
    /\ SavedAt(r, id) = {InsertedAt(r, id)}

\* C21 (as stated): when two folders of a batch run give the same id, the
\* manifest the run saved holds one item with that id in the run's category,
\* at the index where the first of them put it, the item is the later
\* folder's with its video, videos/<id>.mov is the later folder's video, and
\* every one of the folders is counted as processed.
C21_SameSlugLaterVideoWins ==
    \A r \in Procs : \A id \in ItemIds :
        (SavedBatch(r) /\ id \in SharedIds(r)) =>
            /\ OneItemInPlace(r, id)
            /\ IsItemOfLater(r, id, SavedItems(r)[InsertedAt(r, id)], TRUE)
            /\ HoldsLaterVideo(r, id)
            /\ AllCounted(r, id)

\* C21 (amended): when two folders of a batch run give the same id, the
\* manifest the run saved holds one item with that id in the run's category,
\* at the index where the first of them put it, and every one of the folders
\* is counted as processed.  The item is the later folder's: either its live
\* item, and then videos/<id>.mov is the later folder's video, or, when that
\* video could not be copied, its static item without a video.
C21_SameSlugLaterWins ==
    \A r \in Procs : \A id \in ItemIds :
        (SavedBatch(r) /\ id \in SharedIds(r)) =>
            /\ OneItemInPlace(r, id)
            /\ AllCounted(r, id)
            /\ IF SavedItems(r)[InsertedAt(r, id)].videoURL # NoURL
               THEN /\ IsItemOfLater(r, id, SavedItems(r)[InsertedAt(r, id)], TRUE)
                    /\ HoldsLaterVideo(r, id)
               ELSE IsItemOfLater(r, id, SavedItems(r)[InsertedAt(r, id)], FALSE)

\* The later of two folders with one id replaced the earlier one's item, behind
\* an item of another id, and its video replaced the earlier one's.
C21_Witness ==
    \E r \in Procs : \E id \in ItemIds :
        /\ SavedBatch(r) /\ id \in SharedIds(r)
        /\ manifest.kind = "json"
        /\ InsertedAt(r, id) = 2
        /\ SavedAt(r, id) = {2}
        /\ HoldsLaterVideo(r, id)
        /\ SavedItems(r)[2].videoURL # NoURL

\* The later folder's video could not be copied: its item is static and
\* videos/<id>.mov is still the earlier folder's video.
C21_WitnessStatic ==
    \E r \in Procs : \E id \in ItemIds :
        /\ SavedBatch(r) /\ id \in SharedIds(r)
        /\ manifest.kind = "json"
        /\ ~HoldsLaterVideo(r, id)
        /\ Lookup(videos, FileName(id, "mov")) # <<>>
        /\ SavedItems(r)[InsertedAt(r, id)].videoURL = NoURL

====
